---- MODULE Spec2Model ----
(***************************************************************************)
(* Deferred, typed, path-based configuration resolution of the CDKTF       *)
(* asset-management stacks: BaseStack (read side: getDependency,           *)
(* getSetting, getDependencySecretName), DependencyStack (write side:      *)
(* createAssets, SettingsOutput), the InferPath type-level walk, and the   *)
(* stores the synthesized configuration is applied to.                     *)
(*                                                                         *)
(* One generation run constructs one stack step by step, lets the code     *)
(* around it call the public read methods, and is then applied: the        *)
(* declared secret and outputs are written to the stores and the emitted   *)
(* references are evaluated against them.  Only the stores survive a run.  *)
(***************************************************************************)
EXTENDS Integers, Sequences, FiniteSets, TLC

\* ------------------------------------------------------------------------
\* Bounds
\* ------------------------------------------------------------------------
MaxRuns == 2        \* generation runs in one behaviour
MaxCalls == 2       \* read-method calls made on a stack in one run
MaxPathLen == 1     \* segments passed to one accessor call

\* ------------------------------------------------------------------------
\* Input domains
\* ------------------------------------------------------------------------
Environments == {"d", "d/p"}
Buckets == {"bkt"}
UpstreamNames == {"DependencyStack", "p/DependencyStack"}
ChainedEnvironments == {"d"}
Flags == {"true", "false"}
AccountIds == {"123"}
Regions == {"r1"}
AssetIds == {"svc1"}
Segments == {"url", "num"}

\* ------------------------------------------------------------------------
\* Dependency schema (BaseStack/types.ts)
\* ------------------------------------------------------------------------
Dependencies == {"DATABASE", "SENTRY", "EXAMPLE"}

DependecyAttributes ==
    [DATABASE |-> [url |-> "string", username |-> "string", password |-> "string"],
     SENTRY   |-> [dsn |-> "string"],
     EXAMPLE  |-> [str |-> "string", num |-> "number", bool |-> "boolean"]]

SettingNames == {"subnetIds", "vpcId", "dependencySecretNamePrefix"}

SettingTypes ==
    [subnetIds |-> "list", vpcId |-> "string", dependencySecretNamePrefix |-> "string"]

\* A type is named by a string: a primitive, "never", or "shape:<kind>" for
\* the attribute mapping of a kind.  TypeMembers(T) is the mapping
\* key -> member type that `keyof T` and `T[K]` consult.  Of the members the
\* language gives the primitives only string's `length` is represented.
ShapeType(dep) == "shape:" \o dep

TypeMembers(T) ==
    IF \E dep \in Dependencies : T = ShapeType(dep)
    THEN DependecyAttributes[CHOOSE dep \in Dependencies : T = ShapeType(dep)]
    ELSE IF T = "string" THEN [length |-> "number"]
    ELSE <<>>

\* type InferPath<T, P>: walk the path segment by segment, `never` as soon as
\* a segment is not a key of the current type, T itself when P is exhausted.
InferPath_AlwaysString(T, P) ==
    IF P = <<>> THEN T
    ELSE IF Head(P) \in DOMAIN TypeMembers(T)
         THEN "string"
         ELSE "never"

RECURSIVE InferPath_EmptyIsNever(_, _)
InferPath_EmptyIsNever(T, P) ==
    IF P = <<>> THEN "never"
    ELSE IF Head(P) \in DOMAIN TypeMembers(T)
         THEN IF Tail(P) = <<>> THEN TypeMembers(T)[Head(P)]
              ELSE InferPath_EmptyIsNever(TypeMembers(T)[Head(P)], Tail(P))
         ELSE "never"

RECURSIVE InferPath(_, _)
InferPath(T, P) ==
    IF P = <<>> THEN T
    ELSE IF Head(P) \in DOMAIN TypeMembers(T)
         THEN InferPath(TypeMembers(T)[Head(P)], Tail(P))
         ELSE "never"

\* The same walk when interface DependecyAttributes is declared as S.
TypeMembersIn(S, T) ==
    IF \E dep \in DOMAIN S : T = ShapeType(dep)
    THEN S[CHOOSE dep \in DOMAIN S : T = ShapeType(dep)]
    ELSE IF T = "string" THEN [length |-> "number"]
    ELSE <<>>

RECURSIVE InferPathIn(_, _, _)
InferPathIn(S, T, P) ==
    IF P = <<>> THEN T
    ELSE IF Head(P) \in DOMAIN TypeMembersIn(S, T)
         THEN InferPathIn(S, TypeMembersIn(S, T)[Head(P)], Tail(P))
         ELSE "never"

\* The accessor's parameter list is `...path: Path` with Path extends
\* string[]: the call type-checks for every tuple of strings.
AccessorAccepts(dep, path) == \A i \in 1..Len(path) : path[i] \in STRING

\* ------------------------------------------------------------------------
\* JSON text, as a sequence of tokens
\* ------------------------------------------------------------------------
Tok(k, v) == [k |-> k, v |-> v]
LBrace == Tok("p", "{")
RBrace == Tok("p", "}")
LBrack == Tok("p", "[")
RBrack == Tok("p", "]")
Colon == Tok("p", ":")
Comma == Tok("p", ",")

\* A JavaScript primitive is [t |-> its typeof, v |-> its text].
JsVal(t, v) == [t |-> t, v |-> v]
NonFinite == {"NaN", "Infinity", "-Infinity"}

RECURSIVE SetToSeq(_)
SetToSeq(S) ==
    IF S = {} THEN <<>>
    ELSE LET x == CHOOSE y \in S : TRUE IN <<x>> \o SetToSeq(S \ {x})

\* JSON.stringify of a primitive: a non-finite number is written as null.
StringifyPrimitive(val) ==
    IF val.t = "string" THEN <<Tok("str", val.v)>>
    ELSE IF val.t = "number"
         THEN IF val.v \in NonFinite THEN <<Tok("lit", "null")>> ELSE <<Tok("num", val.v)>>
         ELSE <<Tok("lit", val.v)>>

\* JSON.stringify of an object nested `depth` levels above its primitives.
RECURSIVE JsonStringify(_, _)
RECURSIVE StringifyMembers(_, _, _)
StringifyMembers(obj, keys, depth) ==
    IF keys = <<>> THEN <<>>
    ELSE <<Tok("str", Head(keys)), Colon>>
         \o JsonStringify(obj[Head(keys)], depth - 1)
         \o (IF Len(keys) > 1 THEN <<Comma>> ELSE <<>>)
         \o StringifyMembers(obj, Tail(keys), depth)

JsonStringify(x, depth) ==
    IF depth = 0 THEN StringifyPrimitive(x)
    ELSE <<LBrace>> \o StringifyMembers(x, SetToSeq(DOMAIN x), depth) \o <<RBrace>>

\* jsondecode: recursive descent over the tokens; result [val, rest].
ParsePrimitive(tok) ==
    IF tok.k = "str" THEN JsVal("string", tok.v)
    ELSE IF tok.k = "num" THEN JsVal("number", tok.v)
    ELSE IF tok.v = "null" THEN JsVal("null", "null")
    ELSE JsVal("boolean", tok.v)

RECURSIVE ParseValue(_)
RECURSIVE ParseMembers(_, _)
RECURSIVE ParseElements(_, _)
ParseMembers(ts, acc) ==
    IF Head(ts) = RBrace THEN [val |-> acc, rest |-> Tail(ts)]
    ELSE LET key == Head(ts).v
             r == ParseValue(Tail(Tail(ts)))
             acc2 == (key :> r.val) @@ acc
         IN  IF Head(r.rest) = Comma
             THEN ParseMembers(Tail(r.rest), acc2)
             ELSE ParseMembers(r.rest, acc2)

ParseElements(ts, acc) ==
    IF Head(ts) = RBrack THEN [val |-> acc, rest |-> Tail(ts)]
    ELSE LET r == ParseValue(ts)
             acc2 == Append(acc, r.val)
         IN  IF Head(r.rest) = Comma
             THEN ParseElements(Tail(r.rest), acc2)
             ELSE ParseElements(r.rest, acc2)

ParseValue(ts) ==
    IF Head(ts) = LBrace THEN ParseMembers(Tail(ts), <<>>)
    ELSE IF Head(ts) = LBrack THEN ParseElements(Tail(ts), <<>>)
    ELSE [val |-> ParsePrimitive(Head(ts)), rest |-> Tail(ts)]

Jsondecode(ts) == ParseValue(ts).val

\* Fn.jsonencode of the settings object: a string, or a list of strings,
\* per setting.
RECURSIVE EncodeList(_)
EncodeList(items) ==
    IF items = <<>> THEN <<>>
    ELSE StringifyPrimitive(Head(items))
         \o (IF Len(items) > 1 THEN <<Comma>> ELSE <<>>)
         \o EncodeList(Tail(items))

RECURSIVE EncodeSettingMembers(_, _)
EncodeSettingMembers(settings, keys) ==
    IF keys = <<>> THEN <<>>
    ELSE <<Tok("str", Head(keys)), Colon>>
         \o (IF SettingTypes[Head(keys)] = "list"
             THEN <<LBrack>> \o EncodeList(settings[Head(keys)]) \o <<RBrack>>
             ELSE StringifyPrimitive(settings[Head(keys)]))
         \o (IF Len(keys) > 1 THEN <<Comma>> ELSE <<>>)
         \o EncodeSettingMembers(settings, Tail(keys))

JsonencodeSettings(settings) ==
    <<LBrace>> \o EncodeSettingMembers(settings, SetToSeq(DOMAIN settings)) \o <<RBrace>>

\* ------------------------------------------------------------------------
\* Inputs of a run
\* ------------------------------------------------------------------------
Str(v) == JsVal("string", v)

BlobA ==
    "svc1" :> [DATABASE |-> [url |-> Str("https://x"), username |-> Str("admin"),
                             password |-> Str("pw")],
               SENTRY   |-> [dsn |-> Str("https://y")],
               EXAMPLE  |-> [str |-> Str("example"), num |-> JsVal("number", "1"),
                             bool |-> JsVal("boolean", "true")]]
BlobC ==
    "svc1" :> [DATABASE |-> [url |-> Str("https://z"), username |-> Str("admin"),
                             password |-> Str("pw")],
               EXAMPLE  |-> [str |-> Str("example"), num |-> JsVal("number", "NaN"),
                             bool |-> JsVal("boolean", "false")]]
Blobs == {BlobA, BlobC}
NoBlob == <<>>

SettingsA ==
    [subnetIds |-> <<Str("123123"), Str("321321")>>, vpcId |-> Str("vpc-123"),
     dependencySecretNamePrefix |-> Str("asset-management")]
SettingsB ==
    [subnetIds |-> <<Str("9")>>, vpcId |-> Str("vpc-9"),
     dependencySecretNamePrefix |-> Str("am")]
SettingsChoices == {SettingsA, SettingsB}
NoSettings == <<>>

Classes == {"DependencyStack", "MyStack"}

RECURSIVE PathsUpTo(_)
PathsUpTo(n) ==
    IF n = 0 THEN {<<>>}
    ELSE LET shorter == PathsUpTo(n - 1)
         IN  shorter \cup {Append(p, s) : p \in {q \in shorter : Len(q) = n - 1}, s \in Segments}
Paths == PathsUpTo(MaxPathLen)

\* ------------------------------------------------------------------------
\* State
\* ------------------------------------------------------------------------
VARIABLES
    pc,            \* position of the run: constructor steps, calls, apply
    unit,          \* the fields of the stack under construction (BaseStack)
    props,         \* the props object the stack was constructed with
    tmp,           \* the secret id computed by getDependencySecretName()
    accessor,      \* the closure returned by the last getDependency call
    depRefs,       \* references returned by accessor calls
    settingRefs,   \* references returned by getSetting calls
    lastCall,      \* the last read-method call, how it was entered, what it threw
    calls,         \* read-method calls made from outside the constructor
    secretStore,   \* secret name -> stored payload
    stateStore,    \* <<bucket, state key>> -> output name -> JSON text
    resolved,      \* what the dependency references evaluated to at apply
    resolvedSettings, \* what the setting references evaluated to at apply
    applyLog,      \* the publishes applied so far, oldest first
    runs,          \* runs started
    env,           \* the environment variables main.ts read at startup, if it ran
    exitStatus     \* the status given to process.exit, 0 while it was not called

vars == <<pc, unit, props, tmp, accessor, depRefs, settingRefs, lastCall, calls,
          secretStore, stateStore, resolved, resolvedSettings, applyLog, runs, env,
          exitStatus>>

\* A value of process.env: undefined, or a string.
Undefined == [set |-> FALSE, v |-> ""]
EnvStr(v) == [set |-> TRUE, v |-> v]
EnvChoices(S) == {Undefined, EnvStr("")} \cup {EnvStr(v) : v \in S}
NoEnv ==
    [read |-> FALSE, accountId |-> Undefined, region |-> Undefined,
     backendBucket |-> Undefined, installDependencies |-> Undefined]

NoRemoteState == [set |-> FALSE, bucket |-> "", key |-> ""]
NoSettingRef == [args |-> [setting |-> ""], remoteState |-> NoRemoteState, output |-> "",
                 setting |-> ""]
NoSecretId == [ref |-> NoSettingRef, tail |-> ""]
NoLoadedDependencies == [set |-> FALSE, secretId |-> NoSecretId]
NoSecret == [set |-> FALSE, name |-> "", secretString |-> <<>>]
NoAccessor == [set |-> FALSE, assetId |-> "", dependencyType |-> "",
               secretString |-> NoLoadedDependencies]
\* The messages of the errors the read methods throw.
DependenciesError == "Cannot read dependencies inside dependency stack."
SettingsError == "Cannot read settings inside dependency stack."

NoCall == [op |-> "none", threw |-> FALSE, entry |-> "none", error |-> ""]
NoUnit ==
    [cls |-> "", name |-> "", environment |-> "", backendBucket |-> "",
     dependencyStackName |-> "", isDependencyStack |-> FALSE, backendKey |-> "",
     dependencyStackRemoteState |-> NoRemoteState,
     loadedDependencies |-> NoLoadedDependencies,
     secret |-> NoSecret, outputs |-> <<>>]

Init ==
    /\ pc = "boot"
    /\ unit = NoUnit
    /\ props = [settings |-> NoSettings, dependencies |-> NoBlob]
    /\ tmp = NoSecretId
    /\ accessor = NoAccessor
    /\ depRefs = {}
    /\ settingRefs = {}
    /\ lastCall = NoCall
    /\ calls = 0
    /\ secretStore = <<>>
    /\ stateStore = <<>>
    /\ resolved = <<>>
    /\ resolvedSettings = <<>>
    /\ applyLog = <<>>
    /\ runs = 1
    /\ env = NoEnv
    /\ exitStatus = 0

\* ------------------------------------------------------------------------
\* BaseStack
\* ------------------------------------------------------------------------
\* `terraform/state/${environment}/${name}/terraform.tfstate`
StateKey(environment, name) ==
    "terraform/state/" \o environment \o "/" \o name \o "/terraform.tfstate"

IsDependencyStack_Never(dependencyStackName) == FALSE

IsDependencyStack_Inverted(dependencyStackName) == dependencyStackName # ""

\* this.isDependencyStack = this.dependencyStackName === ""
IsDependencyStack(dependencyStackName) == dependencyStackName = ""

\* The guard of getDependency and getSetting: the stack is the dependency
\* stack, or the handle the method reads through is missing.
IllegalAccess(u, handle) == u.isDependencyStack \/ ~handle.set

\* Fn.lookup(Fn.jsondecode(remoteState.getString("SettingsOutput")), setting)
SettingRef(u, setting) ==
    [args |-> [setting |-> setting],
     remoteState |-> u.dependencyStackRemoteState, output |-> "SettingsOutput",
     setting |-> setting]

GetDependencySecretName_Eager(u) ==
    LET k == <<u.dependencyStackRemoteState.bucket, u.dependencyStackRemoteState.key>>
    IN  [ref |-> SettingRef(u, "dependencySecretNamePrefix"),
         tail |-> IF k \in DOMAIN stateStore
                  THEN Jsondecode(stateStore[k]["SettingsOutput"]).dependencySecretNamePrefix.v
                           \o "/" \o u.environment
                  ELSE "/" \o u.environment]

\* `${this.getSetting("dependencySecretNamePrefix")}/${this.environment}`
GetDependencySecretName(u) ==
    [ref |-> SettingRef(u, "dependencySecretNamePrefix"), tail |-> "/" \o u.environment]

LookupPath_KindFirst(assetId, dependencyType, path) == <<dependencyType, assetId>> \o path

\* Fn.lookupNested(Fn.jsondecode(secretString), [assetId, dependencyType, ...path])
LookupPath(assetId, dependencyType, path) == <<assetId, dependencyType>> \o path

DepRef(acc, path) ==
    [args |-> [assetId |-> acc.assetId, dependencyType |-> acc.dependencyType, path |-> path],
     secretString |-> acc.secretString,
     path |-> LookupPath(acc.assetId, acc.dependencyType, path),
     type |-> InferPath(ShapeType(acc.dependencyType), path)]

NewStack_HandlesAlways(cls, id, environment, bucket, dependencyStackName, settings, dependencies) ==
    /\ pc \in {"boot", "start"}
    /\ unit' = [NoUnit EXCEPT !.cls = cls, !.name = id, !.environment = environment,
                              !.backendBucket = bucket,
                              !.dependencyStackName = dependencyStackName,
                              !.isDependencyStack = IsDependencyStack(dependencyStackName),
                              !.backendKey = StateKey(environment, id)]
    /\ props' = [settings |-> settings, dependencies |-> dependencies]
    /\ pc' = "ctor_fields"
    /\ UNCHANGED <<tmp, accessor, depRefs, settingRefs, lastCall, calls, secretStore,
                   stateStore, resolved, resolvedSettings, applyLog, runs, env, exitStatus>>

\* constructor, lines up to the S3 backend: the fields, the mode flag, the
\* backend key.  In the dependency stack the handles are never created.
NewStack(cls, id, environment, bucket, dependencyStackName, settings, dependencies) ==
    /\ pc \in {"boot", "start"}
    /\ unit' = [NoUnit EXCEPT !.cls = cls, !.name = id, !.environment = environment,
                              !.backendBucket = bucket,
                              !.dependencyStackName = dependencyStackName,
                              !.isDependencyStack = IsDependencyStack(dependencyStackName),
                              !.backendKey = StateKey(environment, id)]
    /\ props' = [settings |-> settings, dependencies |-> dependencies]
    /\ pc' = IF IsDependencyStack(dependencyStackName) THEN "ctor_base_done" ELSE "ctor_fields"
    /\ UNCHANGED <<tmp, accessor, depRefs, settingRefs, lastCall, calls, secretStore,
                   stateStore, resolved, resolvedSettings, applyLog, runs, env, exitStatus>>

BaseCtorRemoteState_Unassigned ==
    /\ pc = "ctor_fields"
    /\ pc' = "ctor_remoteState"
    /\ UNCHANGED <<unit, props, tmp, accessor, depRefs, settingRefs, lastCall, calls,
                   secretStore, stateStore, resolved, resolvedSettings, applyLog, runs, env,
                   exitStatus>>

\* this.dependencyStackRemoteState = new DataTerraformRemoteStateS3(...)
BaseCtorRemoteState ==
    /\ pc = "ctor_fields"
    /\ unit' = [unit EXCEPT !.dependencyStackRemoteState =
                    [set |-> TRUE, bucket |-> unit.backendBucket,
                     key |-> StateKey(unit.environment, unit.dependencyStackName)]]
    /\ pc' = "ctor_remoteState"
    /\ UNCHANGED <<props, tmp, accessor, depRefs, settingRefs, lastCall, calls, secretStore,
                   stateStore, resolved, resolvedSettings, applyLog, runs, env, exitStatus>>

\* secretId: this.getDependencySecretName(), which calls getSetting while
\* loadedDependencies is still unassigned.
BaseCtorSecretName ==
    /\ pc = "ctor_remoteState"
    /\ IF IllegalAccess(unit, unit.dependencyStackRemoteState)
       THEN /\ pc' = "failed"
            /\ lastCall' = [op |-> "getSetting", threw |-> TRUE, entry |-> "constructor",
                            error |-> SettingsError]
            /\ tmp' = tmp
       ELSE /\ pc' = "ctor_secretName"
            /\ lastCall' = [op |-> "getSetting", threw |-> FALSE, entry |-> "constructor",
                            error |-> ""]
            /\ tmp' = GetDependencySecretName(unit)
    /\ UNCHANGED <<unit, props, accessor, depRefs, settingRefs, calls, secretStore,
                   stateStore, resolved, resolvedSettings, applyLog, runs, env, exitStatus>>

\* this.loadedDependencies = new DataAwsSecretsmanagerSecretVersion(...)
BaseCtorLoadedDependencies ==
    /\ pc = "ctor_secretName"
    /\ unit' = [unit EXCEPT !.loadedDependencies = [set |-> TRUE, secretId |-> tmp]]
    /\ tmp' = NoSecretId
    /\ pc' = "ctor_base_done"
    /\ UNCHANGED <<props, accessor, depRefs, settingRefs, lastCall, calls, secretStore,
                   stateStore, resolved, resolvedSettings, applyLog, runs, env, exitStatus>>

GetDependency_HandlePerCall(assetId, dependencyType) ==
    /\ pc = "constructed"
    /\ calls < MaxCalls
    /\ calls' = calls + 1
    /\ IF IllegalAccess(unit, unit.loadedDependencies)
       THEN /\ pc' = "failed"
            /\ lastCall' = [op |-> "getDependency", threw |-> TRUE, entry |-> "getDependency",
                            error |-> DependenciesError]
            /\ accessor' = accessor
            /\ unit' = unit
       ELSE /\ pc' = pc
            /\ lastCall' = [op |-> "getDependency", threw |-> FALSE, entry |-> "getDependency",
                            error |-> ""]
            /\ unit' = [unit EXCEPT !.loadedDependencies.secretId.tail =
                                        "/" \o unit.environment \o "/" \o assetId]
            /\ accessor' = [set |-> TRUE, assetId |-> assetId,
                            dependencyType |-> dependencyType,
                            secretString |-> unit'.loadedDependencies]
    /\ UNCHANGED <<props, tmp, depRefs, settingRefs, secretStore, stateStore,
                   resolved, resolvedSettings, applyLog, runs, env, exitStatus>>

\* getDependency(assetId, dependencyType)
GetDependency(assetId, dependencyType) ==
    /\ pc = "constructed"
    /\ calls < MaxCalls
    /\ calls' = calls + 1
    /\ IF IllegalAccess(unit, unit.loadedDependencies)
       THEN /\ pc' = "failed"
            /\ lastCall' = [op |-> "getDependency", threw |-> TRUE, entry |-> "getDependency",
                            error |-> DependenciesError]
            /\ accessor' = accessor
       ELSE /\ pc' = pc
            /\ lastCall' = [op |-> "getDependency", threw |-> FALSE, entry |-> "getDependency",
                            error |-> ""]
            /\ accessor' = [set |-> TRUE, assetId |-> assetId,
                            dependencyType |-> dependencyType,
                            secretString |-> unit.loadedDependencies]
    /\ UNCHANGED <<unit, props, tmp, depRefs, settingRefs, secretStore, stateStore,
                   resolved, resolvedSettings, applyLog, runs, env, exitStatus>>

\* accessor(...path)
Accessor(path) ==
    /\ pc = "constructed"
    /\ calls < MaxCalls
    /\ accessor.set
    /\ AccessorAccepts(accessor.dependencyType, path)
    /\ calls' = calls + 1
    /\ depRefs' = depRefs \cup {DepRef(accessor, path)}
    /\ lastCall' = [op |-> "accessor", threw |-> FALSE, entry |-> "accessor",
                    error |-> ""]
    /\ UNCHANGED <<pc, unit, props, tmp, accessor, settingRefs, secretStore, stateStore,
                   resolved, resolvedSettings, applyLog, runs, env, exitStatus>>

\* getSetting(setting)
GetSetting(setting) ==
    /\ pc = "constructed"
    /\ calls < MaxCalls
    /\ calls' = calls + 1
    /\ IF IllegalAccess(unit, unit.dependencyStackRemoteState)
       THEN /\ pc' = "failed"
            /\ lastCall' = [op |-> "getSetting", threw |-> TRUE, entry |-> "getSetting",
                            error |-> SettingsError]
            /\ settingRefs' = settingRefs
       ELSE /\ pc' = pc
            /\ lastCall' = [op |-> "getSetting", threw |-> FALSE, entry |-> "getSetting",
                            error |-> ""]
            /\ settingRefs' = settingRefs \cup {SettingRef(unit, setting)}
    /\ UNCHANGED <<unit, props, tmp, accessor, depRefs, secretStore, stateStore,
                   resolved, resolvedSettings, applyLog, runs, env, exitStatus>>

GetDependencySecretNameCall_Hardcoded ==
    /\ pc = "constructed"
    /\ calls < MaxCalls
    /\ calls' = calls + 1
    /\ pc' = pc
    /\ lastCall' = [op |-> "none", threw |-> FALSE, entry |-> "getDependencySecretName",
                    error |-> ""]
    /\ tmp' = [ref |-> NoSettingRef, tail |-> "asset-management/" \o unit.environment]
    /\ UNCHANGED <<unit, props, accessor, depRefs, settingRefs, secretStore, stateStore,
                   resolved, resolvedSettings, applyLog, runs, env, exitStatus>>

\* getDependencySecretName() called on a constructed stack: it calls
\* getSetting("dependencySecretNamePrefix"), whose error it lets through.
GetDependencySecretNameCall ==
    /\ pc = "constructed"
    /\ calls < MaxCalls
    /\ calls' = calls + 1
    /\ IF IllegalAccess(unit, unit.dependencyStackRemoteState)
       THEN /\ pc' = "failed"
            /\ lastCall' = [op |-> "getSetting", threw |-> TRUE,
                            entry |-> "getDependencySecretName", error |-> SettingsError]
            /\ tmp' = tmp
       ELSE /\ pc' = pc
            /\ lastCall' = [op |-> "getSetting", threw |-> FALSE,
                            entry |-> "getDependencySecretName", error |-> ""]
            /\ tmp' = GetDependencySecretName(unit)
    /\ UNCHANGED <<unit, props, accessor, depRefs, settingRefs, secretStore, stateStore,
                   resolved, resolvedSettings, applyLog, runs, env, exitStatus>>

\* ------------------------------------------------------------------------
\* DependencyStack
\* ------------------------------------------------------------------------
DependencySecretName_Swapped(prefix, environment) == environment \o "/" \o prefix

DependencySecretName_NoEnvironment(prefix, environment) == prefix

\* const dependencySecretName = `${prefix}/${this.environment}`
DependencySecretName(prefix, environment) == prefix \o "/" \o environment

SecretString_Stamped(dependencies) ==
    JsonStringify(dependencies, 3) \o <<Tok("num", ToString(runs))>>

\* secretString: JSON.stringify(dependencies)
SecretString(dependencies) == JsonStringify(dependencies, 3)

\* value: Fn.jsonencode({ secret: secretManager.id, environment })
SecretNameOutput(name, environment) ==
    <<LBrace, Tok("str", "secret"), Colon, Tok("str", name), Comma,
      Tok("str", "environment"), Colon, Tok("str", environment), RBrace>>

\* createAssets(prefix, dependencies): the secret, its version, the output
CreateAssets(u, prefix, dependencies) ==
    LET dependencySecretName == DependencySecretName(prefix, u.environment)
    IN  [u EXCEPT !.secret = [set |-> TRUE, name |-> dependencySecretName,
                              secretString |-> SecretString(dependencies)],
                  !.outputs = ("DependencySecretNameOutput" :>
                                   SecretNameOutput(dependencySecretName, u.environment))
                              @@ u.outputs]

SettingsOutput_Missing(u, settings) == u

SettingsOutput_WrongName(u, settings) ==
    [u EXCEPT !.outputs = ("Settings" :> JsonencodeSettings(settings)) @@ u.outputs]

\* new TerraformOutput(this, "SettingsOutput", { value: Fn.jsonencode(props.settings) })
SettingsOutput(u, settings) ==
    [u EXCEPT !.outputs = ("SettingsOutput" :> JsonencodeSettings(settings)) @@ u.outputs]

\* constructor body after super(): createAssets, then the settings output
DependencyStackConstructor ==
    /\ pc = "ctor_base_done"
    /\ unit.cls = "DependencyStack"
    /\ unit' = SettingsOutput(
                   CreateAssets(unit, props.settings.dependencySecretNamePrefix.v,
                                props.dependencies),
                   props.settings)
    /\ pc' = "constructed"
    /\ UNCHANGED <<props, tmp, accessor, depRefs, settingRefs, lastCall, calls, secretStore,
                   stateStore, resolved, resolvedSettings, applyLog, runs, env, exitStatus>>

\* A consuming stack (MyStack in main.ts): after super() its body makes the
\* read-method calls.
MyStackConstructor ==
    /\ pc = "ctor_base_done"
    /\ unit.cls = "MyStack"
    /\ pc' = "constructed"
    /\ UNCHANGED <<unit, props, tmp, accessor, depRefs, settingRefs, lastCall, calls,
                   secretStore, stateStore, resolved, resolvedSettings, applyLog, runs, env,
                   exitStatus>>

\* ------------------------------------------------------------------------
\* Evaluation of the synthesized configuration
\* ------------------------------------------------------------------------
Failed == [ok |-> FALSE, val |-> JsVal("error", "")]
Ok(v) == [ok |-> TRUE, val |-> v]

\* jsondecode(data.terraform_remote_state.X.outputs.SettingsOutput)[setting]
EvalSettingRef(ref, states) ==
    LET k == <<ref.remoteState.bucket, ref.remoteState.key>>
    IN  IF ~ref.remoteState.set \/ k \notin DOMAIN states THEN Failed
        ELSE IF ref.output \notin DOMAIN states[k] THEN Failed
        ELSE LET obj == Jsondecode(states[k][ref.output])
             IN  IF ref.setting \in DOMAIN obj THEN Ok(obj[ref.setting]) ELSE Failed

\* the secret name the read handle addresses
EvalSecretId(handle, states) ==
    IF ~handle.set THEN Failed
    ELSE LET p == EvalSettingRef(handle.secretId.ref, states)
         IN  IF p.ok THEN Ok(p.val.v \o handle.secretId.tail) ELSE Failed

\* indexing the decoded payload by the path, one key at a time; `depth` is
\* the number of object levels left above the primitives
RECURSIVE LookupNested(_, _, _)
LookupNested(val, path, depth) ==
    IF path = <<>> THEN Ok(val)
    ELSE IF depth = 0 \/ Head(path) \notin DOMAIN val THEN Failed
    ELSE LookupNested(val[Head(path)], Tail(path), depth - 1)

\* jsondecode(data.aws_secretsmanager_secret_version.X.secret_string)[a][k][p...]
EvalDepRef(ref, secrets, states) ==
    LET n == EvalSecretId(ref.secretString, states)
    IN  IF ~n.ok \/ n.val \notin DOMAIN secrets THEN Failed
        ELSE LookupNested(Jsondecode(secrets[n.val]), ref.path, 3)

\* The data sources of the stack can be read.
ReadsOk(u, secrets, states) ==
    /\ u.dependencyStackRemoteState.set =>
           <<u.dependencyStackRemoteState.bucket, u.dependencyStackRemoteState.key>>
               \in DOMAIN states
    /\ u.loadedDependencies.set =>
           LET n == EvalSecretId(u.loadedDependencies, states)
           IN  n.ok /\ n.val \in DOMAIN secrets

PlanOk ==
    /\ ReadsOk(unit, secretStore, stateStore)
    /\ \A r \in depRefs : EvalDepRef(r, secretStore, stateStore).ok
    /\ \A r \in settingRefs : EvalSettingRef(r, stateStore).ok

\* What one publish was given and what it declared.
PublishEntry(u, p) ==
    [name |-> u.name, environment |-> u.environment, backendBucket |-> u.backendBucket,
     settings |-> p.settings, dependencies |-> p.dependencies,
     secretName |-> u.secret.name, secretString |-> u.secret.secretString,
     outputs |-> u.outputs]

\* app.synth() and the apply of what was synthesized: data sources and
\* references are evaluated against the stores as they are; if all of them
\* evaluate, the declared secret and the outputs are written, each under its
\* own name, replacing what was stored there.
Apply ==
    /\ pc = "constructed"
    /\ IF PlanOk
       THEN /\ pc' = "applied"
            /\ resolved' = [r \in depRefs |-> EvalDepRef(r, secretStore, stateStore).val]
            /\ resolvedSettings' = [r \in settingRefs |-> EvalSettingRef(r, stateStore).val]
            /\ IF unit.secret.set
               THEN /\ secretStore' = (unit.secret.name :> unit.secret.secretString)
                                          @@ secretStore
                    /\ stateStore' = (<<unit.backendBucket, unit.backendKey>> :> unit.outputs)
                                          @@ stateStore
                    /\ applyLog' = Append(applyLog, PublishEntry(unit, props))
               ELSE UNCHANGED <<secretStore, stateStore, applyLog>>
       ELSE /\ pc' = "apply_failed"
            /\ UNCHANGED <<resolved, resolvedSettings, secretStore, stateStore, applyLog>>
    /\ UNCHANGED <<unit, props, tmp, accessor, depRefs, settingRefs, lastCall, calls, runs, env,
                   exitStatus>>

\* The process ends; the next run starts with nothing but the stores.
NextRun ==
    /\ pc \in {"applied", "apply_failed", "failed", "exited"}
    /\ runs < MaxRuns
    /\ runs' = runs + 1
    /\ pc' = "boot"
    /\ env' = NoEnv
    /\ exitStatus' = 0
    /\ unit' = NoUnit
    /\ props' = [settings |-> NoSettings, dependencies |-> NoBlob]
    /\ tmp' = NoSecretId
    /\ accessor' = NoAccessor
    /\ depRefs' = {}
    /\ settingRefs' = {}
    /\ lastCall' = NoCall
    /\ calls' = 0
    /\ resolved' = <<>>
    /\ resolvedSettings' = <<>>
    /\ UNCHANGED <<secretStore, stateStore, applyLog>>

\* ------------------------------------------------------------------------
\* main.ts
\* ------------------------------------------------------------------------
\* !x of a value of process.env: undefined and "" are falsy
Falsy(x) == ~x.set \/ x.v = ""

BootstrapMissing_BucketUnchecked(e) == Falsy(e.region) \/ Falsy(e.accountId)

\* if(!region || !accountId || !backendBucket)
BootstrapMissing(e) == Falsy(e.region) \/ Falsy(e.accountId) \/ Falsy(e.backendBucket)

\* The top of main.ts: read the environment, exit with status 1 when a
\* required variable is missing, before any stack is constructed.
Main ==
    /\ pc = "boot"
    /\ \E accountId \in EnvChoices(AccountIds), region \in EnvChoices(Regions),
          backendBucket \in EnvChoices(Buckets),
          installDependencies \in {EnvStr(f) : f \in Flags} :
           /\ env' = [read |-> TRUE, accountId |-> accountId, region |-> region,
                      backendBucket |-> backendBucket,
                      installDependencies |-> installDependencies]
           /\ IF BootstrapMissing(env')
              THEN pc' = "exited" /\ exitStatus' = 1
              ELSE pc' = "start" /\ exitStatus' = exitStatus
    /\ UNCHANGED <<unit, props, tmp, accessor, depRefs, settingRefs, lastCall, calls,
                   secretStore, stateStore, resolved, resolvedSettings, applyLog, runs>>

InstallDependencies_Truthy(e) == ~Falsy(e.installDependencies)

\* if(install_dependencies === "true")
InstallDependencies(e) == e.installDependencies = EnvStr("true")

\* The branch main.ts takes when the flag is "true":
\* new DependencyStack(app, "DependencyStack", {..., dependencyStackName: ''})
NewDependencyStack ==
    /\ pc = "start"
    /\ InstallDependencies(env)
    /\ \E environment \in Environments, settings \in SettingsChoices, dependencies \in Blobs :
           NewStack("DependencyStack", "DependencyStack", environment, env.backendBucket.v, "",
                    settings, dependencies)

\* The branch main.ts takes otherwise:
\* new MyStack(app, "AssetManagement", {..., dependencyStackName: 'DependencyStack'}),
\* with the name literal ranging over the non-empty upstream names.
NewMyStack ==
    /\ pc = "start"
    /\ ~InstallDependencies(env)
    /\ \E environment \in Environments, dependencyStackName \in UpstreamNames :
           NewStack("MyStack", "AssetManagement", environment, env.backendBucket.v,
                    dependencyStackName, NoSettings, NoBlob)

\* Stacks constructed by a program other than main.ts, which reads no
\* environment variable.  A DependencyStack given the name of another
\* dependency stack: the props type allows it, and the stack then both reads
\* and publishes.
NewChainedDependencyStack ==
    /\ pc = "boot"
    /\ \E environment \in ChainedEnvironments, bucket \in Buckets :
           NewStack("DependencyStack", "Other", environment, bucket, "DependencyStack",
                    SettingsB, BlobC)

\* A MyStack given the empty upstream name: its constructor reads
\* dependencies in a dependency stack.
NewOwnerMyStack ==
    /\ pc = "boot"
    /\ \E environment \in Environments, bucket \in Buckets :
           NewStack("MyStack", "AssetManagement", environment, bucket, "", NoSettings, NoBlob)

Next ==
    \/ Main
    \/ NewDependencyStack
    \/ NewChainedDependencyStack
    \/ NewMyStack
    \/ NewOwnerMyStack
    \/ BaseCtorRemoteState
    \/ BaseCtorSecretName
    \/ BaseCtorLoadedDependencies
    \/ DependencyStackConstructor
    \/ MyStackConstructor
    \/ \E assetId \in AssetIds, dependencyType \in Dependencies :
           GetDependency(assetId, dependencyType)
    \/ \E path \in Paths : Accessor(path)
    \/ \E setting \in SettingNames : GetSetting(setting)
    \/ GetDependencySecretNameCall
    \/ Apply
    \/ NextRun

Spec == Init /\ [][Next]_vars

\* ------------------------------------------------------------------------
\* Properties
\* ------------------------------------------------------------------------
Consumer(u) == u.dependencyStackName # ""
Owner(u) == u.cls # "" /\ u.dependencyStackName = ""

\* A step in which a read method is called: from outside the constructor
\* (counted), or by the constructor itself through getDependencySecretName.
OutsideCall == calls' = calls + 1
ConstructorCall == pc = "ctor_remoteState" /\ pc' # pc
CallStep == OutsideCall \/ ConstructorCall

\* The publishes of the log that stack u addresses: made by the stack it
\* names, in its environment and bucket, and not followed by another publish
\* of that same stack.
SameSurface(e, f) ==
    e.name = f.name /\ e.environment = f.environment /\ e.backendBucket = f.backendBucket

AddressedPublish(u) ==
    {i \in 1..Len(applyLog) :
        /\ applyLog[i].name = u.dependencyStackName
        /\ applyLog[i].environment = u.environment
        /\ applyLog[i].backendBucket = u.backendBucket
        /\ \A j \in (i + 1)..Len(applyLog) : ~SameSurface(applyLog[i], applyLog[j])}

\* The state key the stack of a publish wrote its outputs under.
WrittenKey(e) == "terraform/state/" \o e.environment \o "/" \o e.name \o "/terraform.tfstate"

\* A publish wrote the surface the remote-state handle of stack u reads.
ReadSurfaceWritten(u) ==
    \E i \in 1..Len(applyLog) :
        /\ u.dependencyStackRemoteState.key = WrittenKey(applyLog[i])
        /\ u.dependencyStackRemoteState.bucket = applyLog[i].backendBucket

ConventionalName(e) == e.settings.dependencySecretNamePrefix.v \o "/" \o e.environment

\* ... and whose secret no later publish has written to.
LastAtSecret(i) ==
    \A j \in (i + 1)..Len(applyLog) :
        ConventionalName(applyLog[j]) # ConventionalName(applyLog[i])

\* C1: in a stack constructed without an upstream stack name, every call of
\* getDependency and of getSetting throws, whatever the arguments: the run
\* fails, nothing is returned, and the stack's handles and resources, the
\* references and the stores are what they were before the call.
C1_OwnerReadsFail ==
    [][(Owner(unit) /\ OutsideCall)
         => /\ lastCall'.op \in {"getDependency", "getSetting"}
            /\ lastCall'.threw
            /\ pc' = "failed"
            /\ unit' = unit
            /\ accessor' = accessor /\ depRefs' = depRefs /\ settingRefs' = settingRefs
            /\ secretStore' = secretStore /\ stateStore' = stateStore]_vars

C1_Witness ==
    /\ Owner(unit) /\ pc = "failed"
    /\ lastCall.op = "getSetting" /\ lastCall.threw = TRUE
    /\ ~unit.dependencyStackRemoteState.set /\ ~unit.loadedDependencies.set

\* The paths the schema of a kind has: the attribute names of the kind (the
\* attributes are primitives), and the empty path that stops at the kind.
SchemaPath(dep, path) ==
    \/ path = <<>>
    \/ Len(path) = 1 /\ path[1] \in DOMAIN DependecyAttributes[dep]

\* C2: an accessor call whose path is not a path of the schema of the kind
\* never yields a reference: every reference an accessor has returned has a
\* path of the schema.
C2_InvalidPathRejected ==
    \A r \in depRefs : SchemaPath(r.args.dependencyType, r.args.path)

\* C3: the declared type of the reference returned for an attribute of the
\* kind is the type the schema gives that attribute.
C3_DeclaredType ==
    \A r \in depRefs :
        (Len(r.args.path) = 1 /\ r.args.path[1] \in DOMAIN DependecyAttributes[r.args.dependencyType])
            => r.type = DependecyAttributes[r.args.dependencyType][r.args.path[1]]

C3_Witness ==
    \E r \in depRefs :
        /\ r.args.dependencyType = "EXAMPLE" /\ r.args.path = <<"num">>
        /\ r.type = "number"

\* (assetId, kind, attr) is present in the blob.
Present(blob, args) ==
    /\ Len(args.path) = 1
    /\ args.assetId \in DOMAIN blob
    /\ args.dependencyType \in DOMAIN blob[args.assetId]
    /\ args.path[1] \in DOMAIN blob[args.assetId][args.dependencyType]

\* C4: once the owner has published a blob, every reference a consumer of
\* that owner got from getDependency(assetId, kind)(attr), for an attribute
\* present in the blob, evaluates to the value the blob holds there.
C4_PublishThenResolve ==
    (pc = "applied" /\ Consumer(unit))
        => \A i \in AddressedPublish(unit) : \A r \in DOMAIN resolved :
               (LastAtSecret(i) /\ Present(applyLog[i].dependencies, r.args))
                   => resolved[r] =
                        applyLog[i].dependencies[r.args.assetId][r.args.dependencyType][r.args.path[1]]

\* C5: once the owner has published its settings, a consumer of that owner
\* can be applied, and every reference it got from getSetting(name)
\* evaluates to the value published for that name.
C5_SettingsResolve ==
    (pc \in {"applied", "apply_failed"} /\ unit.cls = "MyStack" /\ Consumer(unit) /\ depRefs = {})
        => \A i \in AddressedPublish(unit) :
               /\ pc = "applied"
               /\ \A r \in settingRefs :
                      resolvedSettings[r] = applyLog[i].settings[r.args.setting]

C5_Witness ==
    /\ pc = "applied" /\ unit.cls = "MyStack"
    /\ AddressedPublish(unit) # {}
    /\ \E r \in settingRefs :
           r.args.setting = "vpcId" /\ resolvedSettings[r] = Str("vpc-123")

\* C6: the secret a DependencyStack declares is named
\* {dependencySecretNamePrefix}/{environment}, and the secret id of the read
\* handle of a consumer of that stack evaluates to that name, at which the
\* store holds a secret.
C6_SecretNameAgrees ==
    /\ unit.secret.set =>
           unit.secret.name =
               props.settings.dependencySecretNamePrefix.v \o "/" \o unit.environment
    /\ \A i \in 1..Len(applyLog) : applyLog[i].secretName = ConventionalName(applyLog[i])
    /\ unit.loadedDependencies.set =>
           \A i \in AddressedPublish(unit) :
               /\ EvalSecretId(unit.loadedDependencies, stateStore)
                      = Ok(ConventionalName(applyLog[i]))
               /\ ConventionalName(applyLog[i]) \in DOMAIN secretStore

C6_Witness ==
    /\ unit.cls = "MyStack" /\ unit.loadedDependencies.set
    /\ \E i \in AddressedPublish(unit) :
           /\ applyLog[i].settings = SettingsB
           /\ EvalSecretId(unit.loadedDependencies, stateStore) = Ok("am/" \o unit.environment)

\* C7 as stated: whenever getDependency or getSetting is called on a
\* consumer, the constructor's own call included, both read handles are
\* already populated.
C7_BothHandlesBeforeAnyCall ==
    [][(Consumer(unit) /\ CallStep)
         => (unit.dependencyStackRemoteState.set /\ unit.loadedDependencies.set)]_vars

\* C7, amended: on a consumer the remote-state handle is populated before
\* every call, both handles are populated before every call made from
\* outside the constructor, and no call throws for a missing handle; the
\* constructor's own getSetting call runs before the secret handle exists.
C7_HandlesBeforeUse ==
    [][(Consumer(unit) /\ CallStep)
         => /\ unit.dependencyStackRemoteState.set
            /\ OutsideCall => unit.loadedDependencies.set
            /\ ~lastCall'.threw]_vars

C7_Witness ==
    /\ pc = "ctor_secretName" /\ Consumer(unit)
    /\ lastCall.op = "getSetting" /\ lastCall.threw = FALSE
    /\ unit.dependencyStackRemoteState.set /\ ~unit.loadedDependencies.set

\* C8: the mode flag of a stack is set at construction to whether the
\* upstream stack name is empty, and neither the flag nor the name changes
\* as long as the stack lives.
C8_ModeFixed ==
    /\ [](unit.cls # "" => (unit.isDependencyStack <=> unit.dependencyStackName = ""))
    /\ [][(unit.cls # "" /\ unit'.cls # "")
            => /\ unit'.isDependencyStack = unit.isDependencyStack
               /\ unit'.dependencyStackName = unit.dependencyStackName]_vars

C8_Witness ==
    /\ pc = "applied" /\ calls = MaxCalls
    /\ unit.dependencyStackName = "DependencyStack" /\ ~unit.isDependencyStack

PublishedTo(environment) ==
    {i \in 1..Len(applyLog) : applyLog[i].environment = environment}

LastPublishTo(environment) ==
    CHOOSE i \in PublishedTo(environment) : \A j \in PublishedTo(environment) : j <= i

SecretsOf(environment) ==
    {n \in DOMAIN secretStore :
        \E i \in PublishedTo(environment) : n = ConventionalName(applyLog[i])}

SurfacesOf(environment) ==
    {k \in DOMAIN stateStore :
        \E i \in PublishedTo(environment) :
            k = <<applyLog[i].backendBucket, StateKey(environment, applyLog[i].name)>>}

\* C9 as stated: an environment that was published to has exactly one blob
\* and one settings surface, holding what the most recent publish to the
\* environment was given.
C9_OnePerEnvironment ==
    \A environment \in Environments :
        PublishedTo(environment) # {}
            => LET e == applyLog[LastPublishTo(environment)]
               IN  /\ Cardinality(SecretsOf(environment)) = 1
                   /\ Cardinality(SurfacesOf(environment)) = 1
                   /\ \A n \in SecretsOf(environment) :
                          secretStore[n] = JsonStringify(e.dependencies, 3)
                   /\ \A k \in SurfacesOf(environment) :
                          /\ "SettingsOutput" \in DOMAIN stateStore[k]
                          /\ stateStore[k]["SettingsOutput"] = JsonencodeSettings(e.settings)

\* C9, amended: every secret name {prefix}/{environment} and every state key
\* (bucket, environment, stack id) that was published to holds one payload
\* and one settings output: the JSON of the blob and of the settings of the
\* most recent publish to that name and to that key, nothing of an earlier one.
C9_LastWriteWins ==
    \A i \in 1..Len(applyLog) :
        LET e == applyLog[i]
            k == <<e.backendBucket,
                   "terraform/state/" \o e.environment \o "/" \o e.name \o "/terraform.tfstate">>
        IN  /\ LastAtSecret(i) =>
                   /\ ConventionalName(e) \in DOMAIN secretStore
                   /\ secretStore[ConventionalName(e)] = JsonStringify(e.dependencies, 3)
            /\ (\A j \in (i + 1)..Len(applyLog) : ~SameSurface(e, applyLog[j])) =>
                   /\ k \in DOMAIN stateStore
                   /\ "SettingsOutput" \in DOMAIN stateStore[k]
                   /\ stateStore[k]["SettingsOutput"] = JsonencodeSettings(e.settings)

C9_Witness ==
    /\ Len(applyLog) = 2
    /\ SameSurface(applyLog[1], applyLog[2])
    /\ ConventionalName(applyLog[1]) = ConventionalName(applyLog[2])
    /\ applyLog[1].dependencies = BlobA /\ applyLog[2].dependencies = BlobC
    /\ DOMAIN secretStore = {ConventionalName(applyLog[2])}
    /\ secretStore[ConventionalName(applyLog[2])] = JsonStringify(BlobC, 3)
    /\ secretStore[ConventionalName(applyLog[2])] # JsonStringify(BlobA, 3)

C11_RoundTrip ==
    /\ unit.secret.set => Jsondecode(unit.secret.secretString) = props.dependencies
    /\ \A i \in 1..Len(applyLog) :
           Jsondecode(applyLog[i].secretString) = applyLog[i].dependencies

\* What the generation-time state of a consumer is when it is a function of
\* the constructor's inputs and the calls' arguments alone.
RemoteStateOf(u) ==
    [set |-> TRUE, bucket |-> u.backendBucket,
     key |-> "terraform/state/" \o u.environment \o "/" \o u.dependencyStackName
                 \o "/terraform.tfstate"]

SettingRefOf(u, setting) ==
    [args |-> [setting |-> setting], remoteState |-> RemoteStateOf(u),
     output |-> "SettingsOutput", setting |-> setting]

LoadedDependenciesOf(u) ==
    [set |-> TRUE,
     secretId |-> [ref |-> SettingRefOf(u, "dependencySecretNamePrefix"),
                   tail |-> "/" \o u.environment]]

DepRefOf(u, args) ==
    [args |-> args, secretString |-> LoadedDependenciesOf(u),
     path |-> <<args.assetId, args.dependencyType>> \o args.path,
     type |-> InferPath(ShapeType(args.dependencyType), args.path)]

\* C12: what a consumer holds at generation time (its handles, the accessor,
\* the references it was returned) is determined by the constructor's inputs
\* and the arguments of the calls, whatever the stores hold: the same calls
\* give the same references after any publish, and no published value is in
\* them.
C12_GenerationIndependent ==
    Consumer(unit)
        => /\ unit.dependencyStackRemoteState \in {NoRemoteState, RemoteStateOf(unit)}
           /\ unit.loadedDependencies \in {NoLoadedDependencies, LoadedDependenciesOf(unit)}
           /\ unit.cls = "MyStack" => (unit.secret = NoSecret /\ unit.outputs = <<>>)
           /\ accessor.set => accessor.secretString = LoadedDependenciesOf(unit)
           /\ \A r \in depRefs : r = DepRefOf(unit, r.args)
           /\ \A r \in settingRefs : r = SettingRefOf(unit, r.args.setting)

C12_Witness ==
    /\ pc = "constructed" /\ unit.cls = "MyStack"
    /\ \E i \in AddressedPublish(unit) :
           /\ LastAtSecret(i)
           /\ applyLog[i].dependencies = BlobC
           /\ secretStore[ConventionalName(applyLog[i])] = JsonStringify(BlobC, 3)
    /\ \E r \in depRefs : r.args.dependencyType = "DATABASE" /\ r.args.path = <<"url">>

\* The configuration was synthesized and handed to the evaluator.
Emitted == pc \in {"applied", "apply_failed"}

\* The surface a setting reference reads exists, and so does the secret a
\* dependency reference reads.
SettingsPublished(r) ==
    /\ <<r.remoteState.bucket, r.remoteState.key>> \in DOMAIN stateStore
    /\ r.output \in DOMAIN stateStore[<<r.remoteState.bucket, r.remoteState.key>>]

BlobPublished(r) ==
    /\ SettingsPublished(r.secretString.secretId.ref)
    /\ EvalSecretId(r.secretString, stateStore).ok
    /\ EvalSecretId(r.secretString, stateStore).val \in DOMAIN secretStore

\* C13 as stated: a run publishes all or nothing, and no reference is
\* emitted to the evaluator while the blob or the settings it addresses are
\* unpublished.
C13_NoPartialSuccess ==
    Emitted => /\ \A r \in settingRefs : SettingsPublished(r)
               /\ \A r \in depRefs : BlobPublished(r)

\* A step that writes to a store is the apply of a DependencyStack, and it
\* writes the payload of the whole blob and the output of the whole settings
\* map together.
FullPublish ==
    LET k == <<unit.backendBucket, unit.backendKey>>
    IN  /\ pc = "constructed" /\ pc' = "applied" /\ unit.cls = "DependencyStack"
        /\ unit.secret.name \in DOMAIN secretStore'
        /\ secretStore'[unit.secret.name] = JsonStringify(props.dependencies, 3)
        /\ k \in DOMAIN stateStore'
        /\ "SettingsOutput" \in DOMAIN stateStore'[k]
        /\ stateStore'[k]["SettingsOutput"] = JsonencodeSettings(props.settings)
        /\ DOMAIN Jsondecode(stateStore'[k]["SettingsOutput"]) = SettingNames
        /\ applyLog' = Append(applyLog, PublishEntry(unit, props))

\* C13, amended: a run publishes all or nothing (the stores change only in
\* the apply of a DependencyStack, which writes the whole blob and the whole
\* settings map together; a run that fails writes nothing); an owner emits
\* no reference; a consumer's references are emitted whether or not what
\* they address is published, and the run is applied only if it is.
C13_AllOrNothing ==
    /\ [][(secretStore' # secretStore \/ stateStore' # stateStore \/ applyLog' # applyLog)
            => FullPublish]_vars
    /\ [](Owner(unit) => (depRefs = {} /\ settingRefs = {}))
    /\ []((pc = "applied" /\ Consumer(unit))
            => /\ ReadSurfaceWritten(unit)
               /\ \A r \in settingRefs : SettingsPublished(r)
               /\ \A r \in depRefs : BlobPublished(r))

C13_Witness ==
    /\ pc = "apply_failed" /\ unit.cls = "MyStack"
    /\ \E r \in settingRefs : r.args.setting = "vpcId" /\ ~SettingsPublished(r)
    /\ AddressedPublish(unit) = {}
    /\ Len(applyLog) = 1
    /\ DOMAIN secretStore = {applyLog[1].secretName}
    /\ secretStore[applyLog[1].secretName] = JsonStringify(applyLog[1].dependencies, 3)

\* A required bootstrap input is absent or empty.
RequiredInputMissing(e) ==
    \E f \in {"accountId", "region", "backendBucket"} : ~e[f].set \/ e[f].v = ""

\* C14: a run whose account id, region or bucket name is absent or empty
\* exits with a non-zero status before a stack is constructed: it has no
\* stack, no reference, and it leaves the stores as they were.
C14_MissingInputExits ==
    /\ []((env.read /\ RequiredInputMissing(env))
            => /\ pc = "exited" /\ exitStatus # 0
               /\ unit = NoUnit /\ ~accessor.set
               /\ depRefs = {} /\ settingRefs = {})
    /\ [][(env'.read /\ RequiredInputMissing(env'))
            => /\ secretStore' = secretStore /\ stateStore' = stateStore
               /\ applyLog' = applyLog]_vars

C14_Witness ==
    /\ pc = "exited" /\ exitStatus = 1
    /\ env.accountId = EnvStr("123") /\ env.region = EnvStr("r1")
    /\ env.backendBucket = EnvStr("")
    /\ unit = NoUnit
    /\ runs = 2 /\ Len(applyLog) = 1 /\ DOMAIN secretStore = {applyLog[1].secretName}

\* C15: a call of getDependency, of the accessor or of getSetting on a
\* consumer leaves the stack's fields (both read handles among them), the
\* props and the stores as they were; every reference returned reads
\* through the handle made at construction.
C15_ReadsChangeNothing ==
    /\ [][(Consumer(unit) /\ OutsideCall)
            => /\ unit' = unit /\ props' = props
               /\ secretStore' = secretStore /\ stateStore' = stateStore
               /\ applyLog' = applyLog]_vars
    /\ []((Consumer(unit) /\ pc \in {"constructed", "applied", "apply_failed"})
            => /\ unit.dependencyStackRemoteState.set /\ unit.loadedDependencies.set
               /\ \A r \in depRefs : r.secretString = unit.loadedDependencies
               /\ \A r \in settingRefs : r.remoteState = unit.dependencyStackRemoteState)

C15_Witness ==
    /\ pc = "constructed" /\ calls = MaxCalls /\ unit.cls = "MyStack"
    /\ lastCall.op = "accessor" /\ lastCall.threw = FALSE
    /\ \E r \in depRefs : r.secretString = unit.loadedDependencies
    /\ \E i \in AddressedPublish(unit) :
           secretStore[applyLog[i].secretName] = applyLog[i].secretString

\* The attributes stored for a kind are the attributes of the kind's shape,
\* each with the shape's primitive type.
ConformsToShape(kind, attrs) ==
    /\ kind \in Dependencies
    /\ DOMAIN attrs = DOMAIN DependecyAttributes[kind]
    /\ \A a \in DOMAIN attrs : attrs[a].t = DependecyAttributes[kind][a]

\* C16: whatever the secret store holds decodes to a blob in which, for
\* every asset and every kind present, the attributes conform to the shape
\* of the kind.
C16_StoredConforms ==
    \A n \in DOMAIN secretStore :
        LET blob == Jsondecode(secretStore[n])
        IN  \A asset \in DOMAIN blob : \A kind \in DOMAIN blob[asset] :
                ConformsToShape(kind, blob[asset][kind])

\* C17: a dependency reference addresses the path [assetId, kind,
\* segment1, ..., segmentN] of the decoded payload of the secret the stack's
\* handle reads, nothing added or dropped; a setting reference addresses
\* [name] of the decoded "SettingsOutput" of the remote state of the stack
\* named as upstream.  Applied, each evaluates to what is stored there.
C17_PathExact ==
    /\ \A r \in depRefs :
           /\ Len(r.path) = 2 + Len(r.args.path)
           /\ r.path[1] = r.args.assetId /\ r.path[2] = r.args.dependencyType
           /\ \A i \in 1..Len(r.args.path) : r.path[2 + i] = r.args.path[i]
           /\ r.secretString = unit.loadedDependencies
    /\ \A r \in settingRefs :
           /\ r.setting = r.args.setting /\ r.output = "SettingsOutput"
           /\ r.remoteState.bucket = unit.backendBucket
           /\ r.remoteState.key = "terraform/state/" \o unit.environment \o "/"
                                      \o unit.dependencyStackName \o "/terraform.tfstate"
    /\ (pc = "applied" /\ unit.cls = "MyStack")
           => LET k == <<unit.backendBucket,
                         "terraform/state/" \o unit.environment \o "/"
                             \o unit.dependencyStackName \o "/terraform.tfstate">>
                  settings == Jsondecode(stateStore[k]["SettingsOutput"])
                  blob == Jsondecode(
                              secretStore[settings.dependencySecretNamePrefix.v
                                              \o "/" \o unit.environment])
              IN  /\ \A r \in settingRefs : resolvedSettings[r] = settings[r.args.setting]
                  /\ \A r \in depRefs :
                         Len(r.args.path) = 1
                             => resolved[r] = blob[r.args.assetId][r.args.dependencyType]
                                                  [r.args.path[1]]

C17_Witness ==
    /\ pc = "applied" /\ unit.cls = "MyStack"
    /\ \E r \in depRefs :
           /\ r.path = <<"svc1", "DATABASE", "url">>
           /\ resolved[r] = Str("https://x")

\* C18: the construction of an owner makes no call of getDependency,
\* getSetting or getDependencySecretName and creates no read handle: an
\* owner never passes through the constructor's handle steps, no call is
\* recorded before it is constructed, and both handles are absent from then
\* on.
C18_OwnerNoReadHandles ==
    Owner(unit)
        => /\ ~unit.dependencyStackRemoteState.set /\ ~unit.loadedDependencies.set
           /\ tmp = NoSecretId
           /\ pc \notin {"ctor_fields", "ctor_remoteState", "ctor_secretName"}
           /\ (pc = "ctor_base_done" \/ (pc = "constructed" /\ calls = 0))
                  => lastCall = NoCall

C18_Witness ==
    /\ pc = "constructed" /\ calls = 0
    /\ unit.cls = "DependencyStack" /\ unit.dependencyStackName = ""
    /\ unit.secret.set /\ "SettingsOutput" \in DOMAIN unit.outputs
    /\ ~unit.dependencyStackRemoteState.set /\ ~unit.loadedDependencies.set
    /\ lastCall = NoCall

\* C19: an accessor call whose path ends before a leaf of the schema (the
\* attributes being primitives: a call with no segment) returns a reference
\* whose declared type is the structured type left at that point, the
\* attribute mapping of the kind; applied, the reference evaluates to the
\* stored mapping of the kind.
C19_ExhaustedPathType ==
    /\ \A r \in depRefs :
           r.args.path = <<>>
               => /\ r.type = ShapeType(r.args.dependencyType)
                  /\ TypeMembers(r.type) = DependecyAttributes[r.args.dependencyType]
                  /\ r.path = <<r.args.assetId, r.args.dependencyType>>
    /\ pc = "applied"
           => \A r \in DOMAIN resolved :
                  r.args.path = <<>>
                      => DOMAIN resolved[r] = DOMAIN DependecyAttributes[r.args.dependencyType]

C19_Witness ==
    /\ pc = "applied" /\ unit.cls = "MyStack"
    /\ \E r \in depRefs :
           /\ r.args.path = <<>> /\ r.args.dependencyType = "SENTRY"
           /\ r.type = "shape:SENTRY"
           /\ resolved[r] = [dsn |-> Str("https://y")]

\* C20: every accessor call that was accepted, that is every call that
\* returned a reference, carries at least one segment, and its first segment
\* is an attribute of the kind.
C20_FirstSegmentRequired ==
    \A r \in depRefs :
        /\ Len(r.args.path) >= 1
        /\ Head(r.args.path) \in DOMAIN DependecyAttributes[r.args.dependencyType]

\* Schemas next to the declared one: a kind removed, an attribute removed,
\* an attribute added.
AttributeType(a) == IF a = "num" THEN "number" ELSE "string"

WithoutKind(S, k) == [d \in DOMAIN S \ {k} |-> S[d]]

WithoutAttribute(S, k, a) ==
    [S EXCEPT ![k] = [x \in DOMAIN S[k] \ {a} |-> S[k][x]]]

WithAttribute(S, k, a) == [S EXCEPT ![k] = (a :> AttributeType(a)) @@ S[k]]

Schemas ==
    {DependecyAttributes}
        \cup {WithoutKind(DependecyAttributes, k) : k \in Dependencies}
        \cup UNION {{WithoutAttribute(DependecyAttributes, k, a) :
                        a \in DOMAIN DependecyAttributes[k]} : k \in Dependencies}
        \cup UNION {{WithAttribute(DependecyAttributes, k, a) :
                        a \in Segments \ DOMAIN DependecyAttributes[k]} : k \in Dependencies}

\* S2 is S with kinds or attributes added, nothing removed or retyped.
Extends(S, S2) ==
    /\ DOMAIN S \subseteq DOMAIN S2
    /\ \A k \in DOMAIN S :
           /\ DOMAIN S[k] \subseteq DOMAIN S2[k]
           /\ \A a \in DOMAIN S[k] : S2[k][a] = S[k][a]

ValidIn(S, kind, path) ==
    /\ kind \in DOMAIN S
    /\ InferPathIn(S, ShapeType(kind), path) # "never"

\* C21: a (kind, path) valid under a schema is valid, with the same inferred
\* type, under every schema that only adds kinds or attributes to it; and no
\* reference is returned for a path that was valid under a schema from which
\* the declared schema removes a kind or an attribute and is not valid any
\* more.
C21_SchemaExtension ==
    /\ \A k \in Dependencies, p \in Paths :
           InferPathIn(DependecyAttributes, ShapeType(k), p) = InferPath(ShapeType(k), p)
    /\ \A S \in Schemas, S2 \in Schemas :
           Extends(S, S2)
               => \A k \in DOMAIN S, p \in Paths :
                      ValidIn(S, k, p)
                          => /\ ValidIn(S2, k, p)
                             /\ InferPathIn(S2, ShapeType(k), p)
                                    = InferPathIn(S, ShapeType(k), p)
    /\ \A S \in Schemas :
           Extends(DependecyAttributes, S)
               => \A r \in depRefs :
                      ValidIn(S, r.args.dependencyType, r.args.path)
                          => ValidIn(DependecyAttributes, r.args.dependencyType, r.args.path)

\* A step in which getDependencySecretName is called: from outside the
\* constructor, or by the constructor when it builds the secret handle.
SecretNameCall ==
    \/ OutsideCall /\ lastCall'.entry = "getDependencySecretName"
    \/ ConstructorCall

\* C22: getDependencySecretName resolves the prefix through getSetting. On a
\* stack constructed without an upstream stack name every call of it fails
\* with the error of getSetting and returns nothing; on a consumer a call
\* succeeds exactly when the remote-state handle is populated at the call,
\* and then returns the deferred prefix setting followed by "/" and the
\* environment; a failing call fails with the error of getSetting.
C22_SecretNameThroughGetSetting ==
    [][SecretNameCall
         => /\ lastCall'.op = "getSetting"
            /\ Owner(unit) => lastCall'.threw
            /\ Consumer(unit) => (lastCall'.threw <=> ~unit.dependencyStackRemoteState.set)
            /\ lastCall'.threw
                   => /\ lastCall'.error = "Cannot read settings inside dependency stack."
                      /\ pc' = "failed"
                      /\ tmp' = tmp
            /\ ~lastCall'.threw
                   => /\ lastCall'.error = ""
                      /\ tmp' = [ref |-> SettingRefOf(unit, "dependencySecretNamePrefix"),
                                 tail |-> "/" \o unit.environment]]_vars

C22_Witness ==
    /\ Owner(unit) /\ pc = "failed"
    /\ lastCall.entry = "getDependencySecretName" /\ lastCall.threw
    /\ lastCall.error = "Cannot read settings inside dependency stack."
    /\ calls > 0

\* C23: the key of the remote state a consumer reads equals the state key
\* an owner wrote, in the same bucket, exactly when the consumer's upstream
\* stack name is the owner's id and both have the same environment and
\* bucket; the owner's outputs are stored under that key.
C23_KeyAddressesOwner ==
    /\ \A i \in 1..Len(applyLog) :
           <<applyLog[i].backendBucket, WrittenKey(applyLog[i])>> \in DOMAIN stateStore
    /\ (Consumer(unit) /\ unit.dependencyStackRemoteState.set)
          => \A i \in 1..Len(applyLog) :
                 (/\ unit.dependencyStackRemoteState.key = WrittenKey(applyLog[i])
                  /\ unit.dependencyStackRemoteState.bucket = applyLog[i].backendBucket)
                 <=> (/\ unit.dependencyStackName = applyLog[i].name
                      /\ unit.environment = applyLog[i].environment
                      /\ unit.backendBucket = applyLog[i].backendBucket)

\* A run of main.ts: the environment was read, and not yet reset for the
\* next run.  A run is over when it exited, failed, or was applied.
MainRun == env.read
RunOver == pc \in {"exited", "failed", "applied", "apply_failed"}
FlagIsTrue == env.installDependencies.set /\ env.installDependencies.v = "true"

\* The stack of a run of main.ts has the mode the flag selects: with the flag
\* "true" a DependencyStack with the empty upstream name, which once
\* constructed declares the secret and the settings output; with any other
\* flag a stack with a non-empty upstream name that declares neither.
ModeAgrees ==
    /\ Owner(unit) <=> FlagIsTrue
    /\ unit.isDependencyStack <=> FlagIsTrue
    /\ FlagIsTrue
          => /\ unit.dependencyStackName = "" /\ unit.cls = "DependencyStack"
             /\ pc \in {"constructed", "applied", "apply_failed"}
                   => unit.secret.set /\ "SettingsOutput" \in DOMAIN unit.outputs
    /\ ~FlagIsTrue
          => /\ Consumer(unit) /\ unit.dependencyStackName # ""
             /\ ~unit.secret.set /\ unit.outputs = <<>>

\* Within a run of main.ts a constructed stack is never replaced by another.
OneStack ==
    [][(MainRun /\ env'.read /\ unit.cls # "")
         => /\ unit'.cls = unit.cls /\ unit'.name = unit.name
            /\ unit'.dependencyStackName = unit.dependencyStackName
            /\ unit'.isDependencyStack = unit.isDependencyStack]_vars

\* C24 as stated: every run of main.ts constructs exactly one stack, and the
\* stack is in owner mode (empty upstream name, publishing the blob and the
\* settings) if and only if INSTALL_DEPENDENCIES is exactly "true"; otherwise
\* it is a consumer with a non-empty upstream name.
C24_EveryRunOneUnit ==
    /\ []((MainRun /\ RunOver) => unit.cls # "")
    /\ []((MainRun /\ unit.cls # "") => ModeAgrees)
    /\ OneStack

\* C24, amended: a run of main.ts that has its required inputs constructs
\* exactly one stack, in the mode the flag selects; a run that misses one
\* constructs none.
C24_OneUnitUnlessExited ==
    /\ []((MainRun /\ RunOver) => (unit.cls # "" <=> ~RequiredInputMissing(env)))
    /\ []((MainRun /\ unit.cls # "") => ModeAgrees)
    /\ OneStack

C24_Witness ==
    /\ MainRun /\ pc = "applied"
    /\ env.installDependencies = EnvStr("false")
    /\ unit.cls = "MyStack" /\ Consumer(unit) /\ ~unit.isDependencyStack
    /\ runs = 2 /\ Len(applyLog) = 1 /\ applyLog[1].name = unit.dependencyStackName

====
